---- MODULE Spec2Model ----
(***************************************************************************)
(* Weighted-average-cost position ledger of moidotsh/stocks               *)
(* (python/tfsa-llm): apply_trades.py, record_week.py and ledger_tui.py.   *)
(*                                                                         *)
(* Decimal values are modelled as integers that count tenths of the        *)
(* stored quantum: a quantity n stands for n * 10^-7 (the stored scale is  *)
(* 10^-6, QTY_PREC model units) and a price n stands for n * 10^-5 (the    *)
(* stored scale is 10^-4, PX_PREC model units).  Inputs therefore carry    *)
(* one more digit than the stored scale, so every quantize() of the code   *)
(* really rounds.  Python's Decimal keeps 28 significant digits, so on the *)
(* small values used here sums, products and differences are exact; a      *)
(* quotient is modelled as the exact fraction numerator/denominator, that  *)
(* is, the rounding of a non-terminating quotient (the avg_fill_price of   *)
(* apply_trades) to 28 significant digits is not modelled.                 *)
(*                                                                         *)
(* One behaviour is one run of one script on one holdings file: the inputs *)
(* are loaded, the operations of the batch are applied one a step to the   *)
(* working dict, and the file is rewritten when the batch is exhausted.    *)
(* A failed operation ends the run (die / ValueError / uncaught decimal    *)
(* exception), recorded in err.                                            *)
(***************************************************************************)
EXTENDS Integers, Sequences, FiniteSets, TLC

VARIABLES
    asset,    \* "equity" | "crypto": the book (--asset / wizard choice)
    tool,     \* which script runs: "apply_trades" | "record_week" | "ledger_tui"
    pc,       \* "idle" | "loop" | "writing" | "saved" | "done" | "died" |
              \* "declined"
    file,     \* the holdings CSV on disk: sequence of records
    backup,   \* the holdings CSV renamed aside (.bak-<time>); <<>> if none
    log,      \* the entries JSON on disk: sequence of entries, as text
    schema,   \* the document a loader refused, its header, the columns named
    prior,    \* history: the holdings CSV as it was when the run began
    fills,    \* apply_trades: the rows of the fills CSV (load_fills)
    hidx,     \* the working dict ticker -> row of apply_equity / apply_crypto
    n,        \* number of operations of the batch applied so far
    pre,      \* history: hidx as it was before the last operation
    last,     \* history: the last operation taken from the batch
    err,      \* "none" or the kind of the error that ended the run
    disk,     \* which of the two documents exist: holdings "present" |
              \* "absent", entries "array" | "absent" | "garbled"
    disk_prior, \* history: disk as it was when the run began
    batch,    \* history: the operations taken from the batch so far, where
              \* the run is traced (Untraced elsewhere)
    ran       \* history: inputs and outcome of the invocation before this one

vars == <<asset, tool, pc, file, backup, log, schema, prior, fills, hidx, n,
          pre, last, err, disk, disk_prior, batch, ran>>

----------------------------------------------------------------------------
(* Bounds of the model *)

\* operations (trades / fills) in one batch
MaxOps == 2
\* entries of the history log, that is runs in a row, where runs are repeated
MaxLog == 2
\* rows of the fills CSV read by apply_trades
MaxFills == 2

(* Program constants *)

\* Decimal("0.000000"): one stored quantity quantum, in model units
QTY_PREC == 10
\* Decimal("0.0001"): one stored price quantum, in model units
PX_PREC == 10

Tickers == {"AAA", "BBB"}
Actions == {"buy", "sell"}
Assets == {"equity", "crypto"}
Tools == {"apply_trades", "record_week", "ledger_tui"}
Currencies == {"CAD", "USD"}
\* crypto rows carry no currency column
NoCurrency == "-"

CurrenciesOf(a) == IF a = "equity" THEN Currencies ELSE {NoCurrency}

\* lexicographic order of the identifiers used
TickerRank(t) == IF t = "AAA" THEN 1 ELSE 2

----------------------------------------------------------------------------
(* Decimal arithmetic *)

Abs(x) == IF x < 0 THEN -x ELSE x

Sign(x) == IF x < 0 THEN -1 ELSE 1

\* faulty variant: truncation instead of ROUND_HALF_UP
QuantizeTruncate(num, den, prec) ==
    Sign(num) * Sign(den) * ((Abs(num) \div (Abs(den) * prec)) * prec)

\* Decimal.quantize(prec, rounding=ROUND_HALF_UP) of the fraction num/den
\* (den # 0): nearest multiple of prec, a tie goes away from zero.
Quantize(num, den, prec) ==
    Sign(num) * Sign(den)
      * (((2 * Abs(num) + Abs(den) * prec) \div (2 * Abs(den) * prec)) * prec)

round_shares(x) == Quantize(x, 1, QTY_PREC)

round_price(num, den) == Quantize(num, den, PX_PREC)

----------------------------------------------------------------------------
(* The text of the CSV cells *)

RECURSIVE Digits(_)
\* the decimal digits of a natural number, most significant first
Digits(k) == IF k < 10 THEN <<k>> ELSE Append(Digits(k \div 10), k % 10)

RECURSIVE Value(_)
\* the natural number a sequence of decimal digits spells
Value(ds) ==
    IF ds = <<>> THEN 0
    ELSE 10 * Value(SubSeq(ds, 1, Len(ds) - 1)) + ds[Len(ds)]

\* faulty variant: the number is printed in hundredths, finer digits are cut
StrTwoDecimals(x) ==
    [neg |-> x < 0, digits |-> Digits((Abs(x) \div 1000) * 1000)]

\* str(v) of a Decimal: the sign and all the digits of the number
str_decimal(x) == [neg |-> x < 0, digits |-> Digits(Abs(x))]

\* D(cell) = Decimal(str(cell)): the number the text spells
D(cell) == (IF cell.neg THEN -1 ELSE 1) * Value(cell.digits)

\* s.strip().upper() on the identifiers used: "aaa " is a spelling of AAA
strip_upper(s) == IF s = "aaa " THEN "AAA" ELSE s

----------------------------------------------------------------------------
(* Holdings rows and the working dict *)

Row(ticker, shares, avg_cost, currency) ==
    [ticker |-> ticker, shares |-> shares, avg_cost |-> avg_cost,
     currency |-> currency]

EmptyIndex == [t \in {} |-> Row("AAA", 0, 0, NoCurrency)]

\* {row[key]: row for row in rows}: a later row replaces an earlier one
index_holdings(rows) ==
    [t \in {rows[i].ticker : i \in DOMAIN rows} |->
        rows[CHOOSE i \in DOMAIN rows :
                /\ rows[i].ticker = t
                /\ \A j \in DOMAIN rows : rows[j].ticker = t => j <= i]]

\* hidx[ticker] = row (insert or replace)
SetRow(h, t, row) ==
    [x \in DOMAIN h \cup {t} |-> IF x = t THEN row ELSE h[x]]

\* faulty variant: the delete empties the working dict
DelRowClearsAll(h, t) == [x \in {} |-> h[x]]

\* del hidx[ticker]
DelRow(h, t) == [x \in DOMAIN h \ {t} |-> h[x]]

RECURSIVE SortedBy(_, _)
SortedBy(h, keys) ==
    IF keys = {} THEN <<>>
    ELSE LET t == CHOOSE x \in keys :
                      \A y \in keys : TickerRank(x) <= TickerRank(y)
         IN <<h[t]>> \o SortedBy(h, keys \ {t})

\* faulty variant: rows written in descending order of identifier
RECURSIVE SortedDescending(_, _)
SortedDescending(h, keys) ==
    IF keys = {} THEN <<>>
    ELSE LET t == CHOOSE x \in keys :
                      \A y \in keys : TickerRank(x) >= TickerRank(y)
         IN <<h[t]>> \o SortedDescending(h, keys \ {t})

\* faulty variant: the rows come out in descending order of identifier
DescendingValues(h) == SortedDescending(h, DOMAIN h)

\* sorted(hidx.values(), key=lambda r: r["ticker"])
sorted_values(h) == SortedBy(h, DOMAIN h)

----------------------------------------------------------------------------
(* The three ledger transitions, identical in the three scripts *)

\* faulty variant: the blend forgets to weight the existing lot
BlendUnweighted(row, qty, pnum, pden) ==
    [row EXCEPT !.shares = round_shares(row.shares + qty),
                !.avg_cost = round_price(row.avg_cost * pden + pnum, 2 * pden)]

\* buy into an existing row (row.shares + qty # 0, pden # 0):
\*   new_sh = row["shares"] + qty
\*   new_cost = (row["shares"]*row["avg_cost"] + qty*price) / new_sh
\* where price is the fraction pnum/pden
buy_existing(row, qty, pnum, pden) ==
    [row EXCEPT
        !.shares = round_shares(row.shares + qty),
        !.avg_cost = round_price(row.shares * row.avg_cost * pden + qty * pnum,
                                 (row.shares + qty) * pden)]

\* faulty variant: the new row is truncated to the quantum, not rounded
BuyNewTruncates(ticker, qty, pnum, pden, currency) ==
    Row(ticker, QuantizeTruncate(qty, 1, QTY_PREC),
        QuantizeTruncate(pnum, pden, PX_PREC), currency)

\* buy of an instrument that has no row
buy_new(ticker, qty, pnum, pden, currency) ==
    Row(ticker, round_shares(qty), round_price(pnum, pden), currency)

\* faulty variant: a sell re-prices the remaining lot at zero
SellResetsCost(row, qty) ==
    [row EXCEPT !.shares = round_shares(row.shares - qty), !.avg_cost = 0]

\* sell: row["shares"] = round_shares(row["shares"] - qty); avg_cost stays
sell_row(row, qty) == [row EXCEPT !.shares = round_shares(row.shares - qty)]

Ok(h) == [err |-> "none", hidx |-> h]

\* die(msg) / raise: the run ends, the working dict is what it was
Fail(kind, h) == [err |-> kind, hidx |-> h]

\* faulty variant: the row of a liquidated position is kept
StoreAlways(h, t, row) == SetRow(h, t, row)

\* row["shares"] = ...; if row["shares"] == 0: del hidx[ticker]
StoreOrDelete(h, t, row) ==
    IF row.shares = 0 THEN DelRow(h, t) ELSE SetRow(h, t, row)

\* faulty variant: an excess of one quantum is let through
ExceedsByMoreThanQuantum(qty, shares) == qty > shares + QTY_PREC

\* if qty > row["shares"]: die / raise
exceeds_holding(qty, shares) == qty > shares

\* faulty variant: selling an instrument that is not held opens a short position
SellOpensShort(h, ticker, qty) ==
    IF ticker \notin DOMAIN h
    THEN Ok(SetRow(h, ticker, Row(ticker, round_shares(0 - qty), 0, NoCurrency)))
    ELSE IF exceeds_holding(qty, h[ticker].shares)
    THEN Fail("InsufficientPosition", h)
    ELSE Ok(StoreOrDelete(h, ticker, sell_row(h[ticker], qty)))

\* the sell branch, the same in apply_equity and apply_crypto of the three
\* scripts: row = hidx.get(ticker); if not row: die; if qty > shares: die;
\* reduce; delete the row when it reaches zero
sell(h, ticker, qty) ==
    IF ticker \notin DOMAIN h THEN Fail("NoSuchPosition", h)
    ELSE IF exceeds_holding(qty, h[ticker].shares)
    THEN Fail("InsufficientPosition", h)
    ELSE Ok(StoreOrDelete(h, ticker, sell_row(h[ticker], qty)))

\* faulty variant: the currency of a buy is not compared with the row's
CurrencyUnchecked(row_currency, currency) == FALSE

\* f["currency"] != row["currency"] / row["currency"] != t["currency"]
currency_differs(row_currency, currency) == currency # row_currency

\* faulty variant: a blended quantity of zero gets the default cost zero
BlendDefaultsToZero(h, ticker, qty, pnum, pden) ==
    IF h[ticker].shares + qty = 0
    THEN Ok(SetRow(h, ticker, [h[ticker] EXCEPT !.shares = 0, !.avg_cost = 0]))
    ELSE Ok(SetRow(h, ticker, buy_existing(h[ticker], qty, pnum, pden)))

\* the buy into a held row: new_sh = row["shares"] + qty, then the Decimal
\* division by new_sh, which raises InvalidOperation / DivisionByZero when
\* new_sh is zero (the default context traps both); nothing catches it
blend(h, ticker, qty, pnum, pden) ==
    IF h[ticker].shares + qty = 0 THEN Fail("DivisionByZero", h)
    ELSE Ok(SetRow(h, ticker, buy_existing(h[ticker], qty, pnum, pden)))

\* act in ("buy", "sell")
valid_action(act) == act \in {"buy", "sell"}

----------------------------------------------------------------------------
(* apply_trades.py: trades reconciled against the fills CSV *)

\* faulty variant: the fills are grouped by instrument alone
FillsOfTicker(fs, action, ticker) ==
    SelectSeq(fs, LAMBDA f : f.ticker = ticker)

\* fidx.get((action, ticker), []): the fills of one (action, instrument)
fills_here(fs, action, ticker) ==
    SelectSeq(fs, LAMBDA f : f.action = action /\ f.ticker = ticker)

RECURSIVE SumQty(_)
\* sum((f["qty"] for f in fills_here), D(0))
SumQty(fs) == IF fs = <<>> THEN 0 ELSE Head(fs).qty + SumQty(Tail(fs))

RECURSIVE SumQtyPrice(_)
\* sum((f["qty"]*f["fill_price"] for f in fills_here), D(0))
SumQtyPrice(fs) ==
    IF fs = <<>> THEN 0
    ELSE Head(fs).qty * Head(fs).fill_price + SumQtyPrice(Tail(fs))

\* faulty variant: a trade without fills is not told apart
NoFillsUnchecked(here) == FALSE

\* if not fills_here: die("no fill provided for trade ...")
no_fills(here) == here = <<>>

\* faulty variant: a difference of one quantum or less is tolerated
QtyWithinQuantum(total_qty, qty) == Abs(total_qty - qty) > QTY_PREC

\* total_qty != qty
qty_mismatch(total_qty, qty) == total_qty # qty

\* One iteration of the loop of apply_equity: trade t = [action, ticker, qty].
\* avg_fill_price is the fraction SumQtyPrice(here) / t.qty.
at_apply_equity(h, t, fs) ==
    LET here == fills_here(fs, t.action, t.ticker)
        cost == SumQtyPrice(here)
    IN  IF no_fills(here) THEN Fail("NoFillsForTrade", h)
        ELSE IF qty_mismatch(SumQty(here), t.qty) THEN Fail("QuantityMismatch", h)
        ELSE IF t.qty = 0 THEN Fail("DivisionByZero", h)
        ELSE IF t.action = "buy" THEN
            IF t.ticker \in DOMAIN h THEN
                IF \E i \in DOMAIN here :
                       currency_differs(h[t.ticker].currency, here[i].currency)
                THEN Fail("CurrencyMismatch", h)
                ELSE blend(h, t.ticker, t.qty, cost, t.qty)
            ELSE Ok(SetRow(h, t.ticker,
                           buy_new(t.ticker, t.qty, cost, t.qty, here[1].currency)))
        ELSE
            sell(h, t.ticker, t.qty)

\* One iteration of the loop of apply_crypto (no currency column).
at_apply_crypto(h, t, fs) ==
    LET here == fills_here(fs, t.action, t.ticker)
        cost == SumQtyPrice(here)
    IN  IF no_fills(here) THEN Fail("NoFillsForTrade", h)
        ELSE IF qty_mismatch(SumQty(here), t.qty) THEN Fail("QuantityMismatch", h)
        ELSE IF t.qty = 0 THEN Fail("DivisionByZero", h)
        ELSE IF t.action = "buy" THEN
            IF t.ticker \in DOMAIN h THEN
                blend(h, t.ticker, t.qty, cost, t.qty)
            ELSE Ok(SetRow(h, t.ticker,
                           buy_new(t.ticker, t.qty, cost, t.qty, NoCurrency)))
        ELSE
            sell(h, t.ticker, t.qty)

----------------------------------------------------------------------------
(* record_week.py: every fill is one ledger operation *)
\* f = [action, ticker, qty, fill_price, currency]

rw_apply_equity(h, f) ==
    IF f.qty <= 0 THEN Fail("NonPositiveQuantity", h)
    ELSE IF f.action = "buy" THEN
        IF f.ticker \in DOMAIN h THEN
            IF currency_differs(h[f.ticker].currency, f.currency)
            THEN Fail("CurrencyMismatch", h)
            ELSE blend(h, f.ticker, f.qty, f.fill_price, 1)
        ELSE Ok(SetRow(h, f.ticker,
                       buy_new(f.ticker, f.qty, f.fill_price, 1, f.currency)))
    ELSE
        sell(h, f.ticker, f.qty)

\* faulty variant: the crypto copy of the loop has lost the sign check
RwCryptoUnchecked(h, f) ==
    IF f.action = "buy" THEN
        IF f.ticker \in DOMAIN h THEN
            blend(h, f.ticker, f.qty, f.fill_price, 1)
        ELSE Ok(SetRow(h, f.ticker,
                       buy_new(f.ticker, f.qty, f.fill_price, 1, NoCurrency)))
    ELSE
        sell(h, f.ticker, f.qty)

rw_apply_crypto(h, f) ==
    IF f.qty <= 0 THEN Fail("NonPositiveQuantity", h)
    ELSE IF f.action = "buy" THEN
        IF f.ticker \in DOMAIN h THEN
            blend(h, f.ticker, f.qty, f.fill_price, 1)
        ELSE Ok(SetRow(h, f.ticker,
                       buy_new(f.ticker, f.qty, f.fill_price, 1, NoCurrency)))
    ELSE
        sell(h, f.ticker, f.qty)

----------------------------------------------------------------------------
(* ledger_tui.py: every trade of the wizard is one ledger operation *)
\* t = [action, ticker, qty, fill_price (unit_price), currency].  The errors
\* of the ledger are ValueError, caught by main; a division by zero is a
\* decimal exception that main does not catch.

tui_apply_equity(h, t) ==
    IF t.action = "buy" THEN
        IF t.ticker \in DOMAIN h THEN
            IF currency_differs(h[t.ticker].currency, t.currency)
            THEN Fail("CurrencyMismatch", h)
            ELSE blend(h, t.ticker, t.qty, t.fill_price, 1)
        ELSE Ok(SetRow(h, t.ticker,
                       buy_new(t.ticker, t.qty, t.fill_price, 1, t.currency)))
    ELSE
        sell(h, t.ticker, t.qty)

tui_apply_crypto(h, t) ==
    IF t.action = "buy" THEN
        IF t.ticker \in DOMAIN h THEN
            blend(h, t.ticker, t.qty, t.fill_price, 1)
        ELSE Ok(SetRow(h, t.ticker,
                       buy_new(t.ticker, t.qty, t.fill_price, 1, NoCurrency)))
    ELSE
        sell(h, t.ticker, t.qty)

----------------------------------------------------------------------------
(* Inputs *)

\* quantities of the operations typed into ledger_tui / read by record_week
OpQty == {-10, 0, 4, 5, 10, 20}
\* unit prices
OpPrice == {20, 30}
\* quantities of the trades JSON and of the fills CSV of apply_trades
TradeQty == {10, 20}
FillQty == {5, 10}

Fill(action, ticker, qty, fill_price, currency) ==
    [action |-> action, ticker |-> ticker, qty |-> qty,
     fill_price |-> fill_price, currency |-> currency]

\* The rows a fills CSV is made of.  The price of a sell fill never reaches
\* the ledger, so sells come at one price; AAA is sold and BBB is traded in
\* lots of one quantum.
FillRows(a) ==
    {Fill("buy", "AAA", q, p, c) :
        q \in FillQty, p \in OpPrice, c \in CurrenciesOf(a)}
    \cup {Fill("sell", "AAA", 10, 20, c) : c \in CurrenciesOf(a)}
    \cup {Fill(act, "BBB", 10, 30, IF a = "equity" THEN "USD" ELSE NoCurrency) :
            act \in Actions}

\* the fills CSV: up to MaxFills rows
FillFeeds(a) == UNION {[1..k -> FillRows(a)] : k \in 0..MaxFills}

\* The operations record_week reads and ledger_tui is given.  The price of
\* a sell never reaches the ledger, so sells come at one price.
Ops(a) ==
    {Fill("buy", t, q, p, c) :
        t \in Tickers, q \in OpQty, p \in OpPrice, c \in CurrenciesOf(a)}
    \cup {Fill("sell", t, q, 20, c) :
            t \in Tickers, q \in OpQty, c \in CurrenciesOf(a)}

Trades ==
    {[action |-> act, ticker |-> t, qty |-> q] :
        act \in Actions, t \in Tickers, q \in TradeQty}

\* what the action column of an input may hold: the two actions and another
\* word
RawActions == Actions \cup {"hold"}

\* the trades JSON as it is read, before load_trades looks at the actions
RawTrades ==
    Trades \cup {[action |-> "hold", ticker |-> t, qty |-> 10] : t \in Tickers}
           \cup {[action |-> "buy", ticker |-> "aaa ", qty |-> 10]}

\* the fills of record_week / the answers given to ledger_tui, as entered
RawOps(a) ==
    Ops(a) \cup {Fill("hold", t, 10, 20, c) : t \in Tickers, c \in CurrenciesOf(a)}
           \cup {Fill("buy", "aaa ", 10, 20, c) : c \in CurrenciesOf(a)}

\* Quantities as the files of apply_trades can hold them: neither load_trades
\* nor load_fills looks at the sign.
RawQty == {-10, 0, 10}

\* Rows of a fills CSV as load_fills of apply_trades accepts them: any
\* quantity, and any word in the action column (load_fills does not look at
\* it).
RawFillRows(a) ==
    LET c == IF a = "equity" THEN "CAD" ELSE NoCurrency
    IN  {Fill("buy", "AAA", q, p, c) : q \in RawQty, p \in OpPrice}
        \cup {Fill("sell", "AAA", 10, 20, c), Fill("hold", "AAA", 10, 20, c)}

RawFillFeeds(a) == UNION {[1..k -> RawFillRows(a)] : k \in 0..MaxFills}

\* the trades JSON for those fills, before load_trades looks at the actions
RawQtyTrades ==
    {[action |-> act, ticker |-> "AAA", qty |-> q] :
        act \in RawActions, q \in RawQty}

\* Holdings files left by earlier runs: AAA absent or 10 @ 20, BBB absent or
\* 20 @ 30 (the rows a single buy of each writes).
InitialSnapshots(a) ==
    LET cA == IF a = "equity" THEN "CAD" ELSE NoCurrency
        cB == IF a = "equity" THEN "USD" ELSE NoCurrency
        rA == Row("AAA", 10, 20, cA)
        rB == Row("BBB", 20, 30, cB)
    IN  {<<>>, <<rA>>, <<rB>>, <<rA, rB>>}

NoOp == [action |-> "none", ticker |-> "AAA", qty |-> 0, pnum |-> 0,
         pden |-> 1, currency |-> NoCurrency]

----------------------------------------------------------------------------
(* The runs *)

\* w.writerow({k: str(v) ...}): the record written for a row
encode_row(r) ==
    [ticker |-> r.ticker, shares |-> str_decimal(r.shares),
     avg_cost |-> str_decimal(r.avg_cost), currency |-> r.currency]

\* the row read from a record: identifier and currency stripped and
\* upper-cased, the numbers parsed
decode_row(c) ==
    Row(strip_upper(c.ticker), D(c.shares), D(c.avg_cost),
        strip_upper(c.currency))

\* the records of a holdings CSV that holds the rows given, in that order
csv_of(rows) == [i \in DOMAIN rows |-> encode_row(rows[i])]

\* load_holdings: the rows of the CSV, in file order
load_holdings(f) == [i \in DOMAIN f |-> decode_row(f[i])]

\* write_holdings / save_holdings: the rows sorted by identifier, one record
\* each
write_holdings(h) == csv_of(sorted_values(h))

\* Holdings files as an editor can leave them: besides the files above, one
\* with its rows out of order, and one in which AAA has a second row, spelled
\* in lower case with a trailing blank (the dict made of the rows keeps the
\* later one).
RawSnapshots(a) ==
    LET cA == IF a = "equity" THEN "CAD" ELSE NoCurrency
        cB == IF a = "equity" THEN "USD" ELSE NoCurrency
        eA == encode_row(Row("AAA", 10, 20, cA))
        eB == encode_row(Row("BBB", 20, 30, cB))
        eA2 == encode_row(Row("aaa ", 20, 30, cA))
    IN  {csv_of(rows) : rows \in InitialSnapshots(a)}
        \cup {<<eB, eA>>, <<eB, eA, eA2>>}

\* the columns load_holdings requires
holdings_req(a) ==
    IF a = "equity" THEN {"ticker", "shares", "avg_cost", "currency"}
    ELSE {"symbol", "amount", "avg_cost_cad"}

\* the columns load_fills / load_fills_csv requires
fills_req(a) ==
    IF a = "equity" THEN {"action", "ticker", "qty", "fill_price", "currency"}
    ELSE {"action", "symbol", "amount", "fill_price_cad"}

\* r.fieldnames of csv.DictReader: the names of the first row; None
\* (present = FALSE) when the document has no row at all.  The documents
\* given: any part of the required columns, or nothing.
Headers(req) ==
    {[present |-> TRUE, cols |-> c] : c \in SUBSET req}
    \cup {[present |-> FALSE, cols |-> {}]}

\* miss = [c for c in req if c not in r.fieldnames]; if miss: die(...).
\* "c not in None" raises TypeError, which nothing catches.
check_columns(req, fieldnames) ==
    IF ~fieldnames.present THEN [err |-> "TypeError", reported |-> {}]
    ELSE IF req \ fieldnames.cols # {}
    THEN [err |-> "SchemaViolation", reported |-> req \ fieldnames.cols]
    ELSE [err |-> "none", reported |-> {}]

NoSchema ==
    [doc |-> "none", fieldnames |-> [present |-> TRUE, cols |-> {}],
     reported |-> {}]

\* json.dumps(data): the entries as text, numbers spelled in digits
json_dumps(data) == [i \in DOMAIN data |-> [trades |-> Digits(data[i].trades)]]

\* json.loads(text)
json_loads(text) == [i \in DOMAIN text |-> [trades |-> Value(text[i].trades)]]

\* faulty variant: the entries file is rewritten with the new entry alone
AppendOverwrites(text, entry) == json_dumps(<<entry>>)

\* data = load_entries(path); data.append(entry); path.write_text(dumps(data))
append_entry(text, entry) == json_dumps(Append(json_loads(text), entry))

\* the entry of a finished batch of k operations (of it, the model keeps the
\* number of trades); apply_trades keeps no log
logged(tl, text, k) ==
    IF tl = "apply_trades" THEN text ELSE append_entry(text, [trades |-> k])

\* The file set aside before the holdings file is written: apply_trades
\* (209-213) and ledger_tui (backup_file) rename the existing file to
\* .bak-<time>; write_holdings of record_week opens the file for writing and
\* sets nothing aside.
backup_file(tl, f, bak) == IF tl = "record_week" THEN bak ELSE f

\* both documents are on disk, the entries file holding a JSON array
BothPresent == [holdings |-> "present", entries |-> "array"]

\* init_files_if_needed: a missing holdings file is created with the header
\* row alone, a missing entries file with "[]"
init_files_if_needed(d) ==
    [holdings |-> "present",
     entries |-> IF d.entries = "absent" THEN "array" ELSE d.entries]

\* what main does about missing files before it loads: ledger_tui creates
\* them, record_week reads a missing holdings file as no rows
files_at_start(tl, d) == IF tl = "ledger_tui" THEN init_files_if_needed(d) ELSE d

\* load_entries: the entries file can be read as a list (a missing file is
\* the empty list)
entries_readable(d) == d.entries # "garbled"

\* the documents after write_holdings / save_holdings and append_entry
files_written(tl, d) ==
    [holdings |-> "present",
     entries |-> IF tl = "apply_trades" THEN d.entries ELSE "array"]

\* the run is not traced
Untraced == <<NoOp>>

\* the operations of a traced run, op being the one just taken
traced(b, op) == IF b = Untraced THEN b ELSE Append(b, op)

\* no invocation came before this one
NoRun ==
    [tool |-> "none", prior |-> <<>>, fills |-> <<>>, batch |-> <<>>,
     err |-> "none", file |-> <<>>]

\* nothing has run yet
NotStarted ==
    /\ prior = file
    /\ backup = <<>>
    /\ log = <<>>
    /\ schema = NoSchema
    /\ tool = "none"
    /\ pc = "idle"
    /\ fills = <<>>
    /\ hidx = EmptyIndex
    /\ pre = EmptyIndex
    /\ n = 0
    /\ last = NoOp
    /\ err = "none"
    /\ disk_prior = disk
    /\ ran = NoRun

Init ==
    /\ asset \in Assets
    /\ file \in {csv_of(rows) : rows \in InitialSnapshots(asset)}
    /\ disk = BothPresent
    /\ batch = Untraced
    /\ NotStarted

InitRaw ==
    /\ asset \in Assets
    /\ file \in RawSnapshots(asset)
    /\ disk = BothPresent
    /\ batch = Untraced
    /\ NotStarted

\* main up to the call of apply_equity / apply_crypto: the inputs are loaded
Begin(tl, fs) ==
    /\ pc = "idle"
    /\ tool' = tl
    /\ fills' = [i \in DOMAIN fs |-> [fs[i] EXCEPT !.ticker = strip_upper(@)]]
    /\ hidx' = index_holdings(load_holdings(file))
    /\ pre' = hidx'
    /\ n' = 0
    /\ last' = NoOp
    /\ err' = "none"
    /\ pc' = "loop"
    /\ prior' = file
    /\ tl = "apply_trades" => disk.holdings = "present"
    /\ disk' = files_at_start(tl, disk)
    /\ disk_prior' = disk
    /\ UNCHANGED <<asset, file, backup, log, schema, batch, ran>>

StartApplyTrades(feeds) == \E fs \in feeds : Begin("apply_trades", fs)

StartRecordWeek == Begin("record_week", <<>>)

StartLedgerTui == Begin("ledger_tui", <<>>)

\* The inputs are validated when they are read, before apply_equity /
\* apply_crypto is called: load_trades of apply_trades and load_fills_csv /
\* main of record_week die on a record whose action is neither buy nor sell.
\* A run whose input has such a record ends here; the records of a run that
\* gets to the loop have all passed valid_action.
RejectAtLoad(tl, acts) ==
    /\ pc = "idle"
    /\ \E a \in acts : ~valid_action(a)
    /\ tool' = tl
    /\ err' = "InvalidAction"
    /\ pc' = "died"
    /\ UNCHANGED <<asset, file, backup, log, schema, prior, fills, hidx, n,
                   pre, last, disk, disk_prior, batch, ran>>

\* load_holdings / load_fills / load_fills_csv refuse a document whose header
\* lacks required columns (die), or trip over a document without any row
\* (TypeError): the run ends before anything is applied.
LoadFails(tl, doc, req) ==
    /\ pc = "idle"
    /\ \E fn \in Headers(req) :
         LET c == check_columns(req, fn)
         IN  /\ c.err # "none"
             /\ err' = c.err
             /\ schema' = [doc |-> doc, fieldnames |-> fn,
                           reported |-> c.reported]
    /\ tool' = tl
    /\ pc' = "died"
    /\ UNCHANGED <<asset, file, backup, log, prior, fills, hidx, n, pre, last,
                   disk, disk_prior, batch, ran>>

SchemaRejects ==
    \/ \E tl \in Tools : LoadFails(tl, "holdings", holdings_req(asset))
    \/ \E tl \in {"apply_trades", "record_week"} :
          LoadFails(tl, "fills", fills_req(asset))

LoadRejects ==
    \E tl \in {"apply_trades", "record_week"} : RejectAtLoad(tl, RawActions)

\* one operation leaves the loop with outcome out
Applied(op, out) ==
    /\ pre' = hidx
    /\ hidx' = out.hidx
    /\ err' = out.err
    /\ last' = op
    /\ n' = n + 1
    /\ pc' = IF out.err = "none" THEN "loop" ELSE "died"
    /\ batch' = traced(batch, op)
    /\ UNCHANGED <<asset, tool, file, backup, log, schema, prior, fills, disk,
                   disk_prior, ran>>

StepApplyTrades(trades) ==
    /\ pc = "loop" /\ tool = "apply_trades" /\ n < MaxOps
    /\ \E raw \in trades :
         /\ valid_action(raw.action)
         /\ LET t == [raw EXCEPT !.ticker = strip_upper(@)]
                here == fills_here(fills, t.action, t.ticker)
                op == [action |-> t.action, ticker |-> t.ticker,
                       qty |-> t.qty,
                       pnum |-> SumQtyPrice(here), pden |-> t.qty,
                       currency |-> IF here = <<>> THEN NoCurrency
                                    ELSE here[1].currency]
            IN Applied(op, IF asset = "equity"
                           THEN at_apply_equity(hidx, t, fills)
                           ELSE at_apply_crypto(hidx, t, fills))

OpOf(f) ==
    [action |-> f.action, ticker |-> f.ticker, qty |-> f.qty,
     pnum |-> f.fill_price, pden |-> 1, currency |-> f.currency]

StepRecordWeek(ops) ==
    /\ pc = "loop" /\ tool = "record_week" /\ n < MaxOps
    /\ \E raw \in ops :
         /\ valid_action(raw.action)
         /\ LET f == [raw EXCEPT !.ticker = strip_upper(@)] IN
            Applied(OpOf(f), IF asset = "equity" THEN rw_apply_equity(hidx, f)
                             ELSE rw_apply_crypto(hidx, f))

\* add_trades_loop asks again when the action typed is neither buy nor sell,
\* so the list main applies holds valid actions only
StepLedgerTui(ops) ==
    /\ pc = "loop" /\ tool = "ledger_tui" /\ n < MaxOps
    /\ \E raw \in ops :
         /\ valid_action(raw.action)
         /\ LET t == [raw EXCEPT !.ticker = strip_upper(@)] IN
            Applied(OpOf(t), IF asset = "equity" THEN tui_apply_equity(hidx, t)
                             ELSE tui_apply_crypto(hidx, t))

\* faulty variant: the snapshot is written although the batch died
CommitAlways == pc \in {"loop", "died"}

\* the snapshot is written only after the whole batch was applied
CommitAllowed == pc = "loop"

\* faulty variant: the rows are written in whatever order the dict yields
CommitAnyOrder ==
    /\ CommitAllowed
    /\ tool # "apply_trades" => entries_readable(disk)
    /\ backup' = backup_file(tool, file, backup)
    /\ file' \in {csv_of(sorted_values(hidx)), csv_of(DescendingValues(hidx))}
    /\ log' = logged(tool, log, n)
    /\ disk' = files_written(tool, disk)
    /\ pc' = "done"
    /\ UNCHANGED <<asset, tool, schema, prior, fills, hidx, n, pre, last, err,
                   disk_prior, batch, ran>>

\* the batch is exhausted: the new snapshot replaces the holdings file and
\* the entry of the batch is appended to the log (the whole of it, as one
\* step)
Commit ==
    /\ CommitAllowed
    /\ tool # "apply_trades" => entries_readable(disk)
    /\ backup' = backup_file(tool, file, backup)
    /\ file' = write_holdings(hidx)
    /\ log' = logged(tool, log, n)
    /\ disk' = files_written(tool, disk)
    /\ pc' = "done"
    /\ UNCHANGED <<asset, tool, schema, prior, fills, hidx, n, pre, last, err,
                   disk_prior, batch, ran>>

\* The same, with the point at which a crash can stop the writer: the old
\* file has been renamed aside (apply_trades, ledger_tui) or truncated by
\* open(path, "w") (all three), and no row has been written yet.
BeginWrite ==
    /\ CommitAllowed
    /\ backup' = backup_file(tool, file, backup)
    /\ file' = <<>>
    /\ pc' = "writing"
    /\ disk' = [disk EXCEPT !.holdings = "present"]
    /\ UNCHANGED <<asset, tool, log, schema, prior, fills, hidx, n, pre, last,
                   err, disk_prior, batch, ran>>

FinishWrite ==
    /\ pc = "writing"
    /\ tool # "apply_trades" => entries_readable(disk)
    /\ file' = write_holdings(hidx)
    /\ log' = logged(tool, log, n)
    /\ disk' = files_written(tool, disk)
    /\ pc' = "done"
    /\ UNCHANGED <<asset, tool, backup, schema, prior, fills, hidx, n, pre,
                   last, err, disk_prior, batch, ran>>

\* the script is run again on the files the last run left
Restart ==
    /\ pc = "done" /\ Len(log) < MaxLog
    /\ pc' = "idle"
    /\ tool' = "none"
    /\ prior' = file
    /\ fills' = <<>>
    /\ hidx' = EmptyIndex
    /\ pre' = EmptyIndex
    /\ n' = 0
    /\ last' = NoOp
    /\ err' = "none"
    /\ disk_prior' = disk
    /\ batch' = IF batch = Untraced THEN batch ELSE <<>>
    /\ UNCHANGED <<asset, file, backup, log, schema, disk, ran>>

Next ==
    \/ StartApplyTrades(FillFeeds(asset))
    \/ StartRecordWeek
    \/ StartLedgerTui
    \/ SchemaRejects
    \/ LoadRejects
    \/ StepApplyTrades(RawTrades)
    \/ StepRecordWeek(RawOps(asset))
    \/ StepLedgerTui(RawOps(asset))
    \/ Commit

Spec == Init /\ [][Next]_vars

\* The same runs on holdings files as an editor can leave them, apply_trades
\* being given files with quantities of either sign and with another word in
\* the action column of the fills.
NextRaw ==
    \/ StartApplyTrades(RawFillFeeds(asset))
    \/ StartRecordWeek
    \/ StartLedgerTui
    \/ SchemaRejects
    \/ LoadRejects
    \/ StepApplyTrades(RawQtyTrades)
    \/ StepRecordWeek(RawOps(asset))
    \/ StepLedgerTui(RawOps(asset))
    \/ BeginWrite
    \/ FinishWrite

SpecRaw == InitRaw /\ [][NextRaw]_vars

\* The weekly runs of the two scripts that keep a log, one after the other on
\* the files the last run left: each week a buy or a sell of one lot of AAA,
\* or nothing at all.
LogOps(a) ==
    {Fill(act, "AAA", 10, 20, IF a = "equity" THEN "CAD" ELSE NoCurrency) :
        act \in Actions}

NextLog ==
    \/ StartRecordWeek
    \/ StartLedgerTui
    \/ StepRecordWeek(LogOps(asset))
    \/ StepLedgerTui(LogOps(asset))
    \/ Commit
    \/ Restart

SpecLog == Init /\ [][NextLog]_vars

\* Runs of record_week and ledger_tui that buy AAA in lots of half a quantum
\* and of one quantum, at prices far apart.
WideQty == {5, 10}
WidePrice == {0, 100}

WideOps(a) ==
    {Fill("buy", "AAA", q, p, IF a = "equity" THEN "CAD" ELSE NoCurrency) :
        q \in WideQty, p \in WidePrice}

NextWide ==
    \/ StartRecordWeek
    \/ StartLedgerTui
    \/ StepRecordWeek(WideOps(asset))
    \/ StepLedgerTui(WideOps(asset))
    \/ Commit

SpecWide == Init /\ [][NextWide]_vars

\* One invocation, and then a second one that is given what the first was
\* given: the same script, a holdings file with the content the first one
\* found, the same fills and the same batch.  What the first run left on
\* disk besides (the file set aside, the log) is still there.
TwiceRows(a) ==
    {Fill(act, "AAA", 10, 20, IF a = "equity" THEN "CAD" ELSE NoCurrency) :
        act \in Actions}
    \cup {Fill("buy", "BBB", 10, 30, IF a = "equity" THEN "USD" ELSE NoCurrency)}

TwiceFeeds(a) == UNION {[1..k -> TwiceRows(a)] : k \in 0..MaxFills}

InitTwice ==
    /\ asset \in Assets
    /\ file \in {csv_of(rows) : rows \in InitialSnapshots(asset)}
    /\ disk = BothPresent
    /\ batch = <<>>
    /\ NotStarted

\* the record an operation of the first run was read from
RecordOf(op) == Fill(op.action, op.ticker, op.qty, op.pnum, op.currency)

\* the fills CSV the invocation is given
FeedsGiven == IF ran = NoRun THEN TwiceFeeds(asset) ELSE {ran.fills}

\* the records the batch of the invocation can go on with
RecordsGiven ==
    IF ran = NoRun THEN TwiceRows(asset)
    ELSE IF n < Len(ran.batch) THEN {RecordOf(ran.batch[n + 1])}
    ELSE {}

TwiceApplyTrades ==
    /\ ran.tool \in {"none", "apply_trades"}
    /\ StartApplyTrades(FeedsGiven)

TwiceRecordWeek == ran.tool \in {"none", "record_week"} /\ StartRecordWeek

TwiceLedgerTui == ran.tool \in {"none", "ledger_tui"} /\ StartLedgerTui

\* the first invocation is over; the second finds the holdings file with the
\* content the first one found
Again ==
    /\ pc \in {"done", "died"} /\ ran = NoRun
    /\ ran' = [tool |-> tool, prior |-> prior, fills |-> fills,
               batch |-> batch, err |-> err, file |-> file]
    /\ file' = prior
    /\ pc' = "idle"
    /\ tool' = "none"
    /\ fills' = <<>>
    /\ hidx' = EmptyIndex
    /\ pre' = EmptyIndex
    /\ n' = 0
    /\ last' = NoOp
    /\ err' = "none"
    /\ batch' = <<>>
    /\ disk_prior' = disk
    /\ UNCHANGED <<asset, backup, log, schema, prior, disk>>

NextTwice ==
    \/ TwiceApplyTrades
    \/ TwiceRecordWeek
    \/ TwiceLedgerTui
    \/ StepApplyTrades(RecordsGiven)
    \/ StepRecordWeek(RecordsGiven)
    \/ StepLedgerTui(RecordsGiven)
    \/ Commit
    \/ Again

SpecTwice == InitTwice /\ [][NextTwice]_vars

\* The runs of the two scripts that keep a log, on a directory in which
\* either document may be missing and the entries file may hold something
\* other than a JSON array; the holdings file and the entry are written one
\* after the other, as main writes them.
DiskStates ==
    [holdings : {"present", "absent"}, entries : {"array", "absent", "garbled"}]

InitDisk ==
    /\ asset \in Assets
    /\ disk \in DiskStates
    /\ file \in IF disk.holdings = "absent" THEN {<<>>}
                ELSE {csv_of(rows) : rows \in InitialSnapshots(asset)}
    /\ batch = Untraced
    /\ NotStarted

\* record_week 279 write_holdings, ledger_tui 307 save_holdings: the new
\* snapshot is on disk, the entry is not yet
SaveHoldings ==
    /\ CommitAllowed
    /\ tool \in {"record_week", "ledger_tui"}
    /\ backup' = backup_file(tool, file, backup)
    /\ file' = write_holdings(hidx)
    /\ disk' = [disk EXCEPT !.holdings = "present"]
    /\ pc' = "saved"
    /\ UNCHANGED <<asset, tool, log, schema, prior, fills, hidx, n, pre, last,
                   err, disk_prior, batch, ran>>

\* append_entry: the entries file is read, the entry added, the file written
AppendEntry ==
    /\ pc = "saved"
    /\ entries_readable(disk)
    /\ log' = logged(tool, log, n)
    /\ disk' = files_written(tool, disk)
    /\ pc' = "done"
    /\ UNCHANGED <<asset, tool, file, backup, schema, prior, fills, hidx, n,
                   pre, last, err, disk_prior, batch, ran>>

\* load_entries inside append_entry: the entries file is no JSON array, the
\* run ends (die / sys.exit(1) / AttributeError) and nothing more is written
AppendFails ==
    /\ pc = "saved"
    /\ ~entries_readable(disk)
    /\ err' = "EntriesUnreadable"
    /\ pc' = "died"
    /\ UNCHANGED <<asset, tool, file, backup, log, schema, prior, fills, hidx,
                   n, pre, last, disk, disk_prior, batch, ran>>

\* ledger_tui 292-293: the answer to "Proceed to write files?" is not y; the
\* trades collected so far are dropped and main returns
Decline ==
    /\ pc = "loop" /\ tool = "ledger_tui"
    /\ pc' = "declined"
    /\ UNCHANGED <<asset, tool, file, backup, log, schema, prior, fills, hidx,
                   n, pre, last, err, disk, disk_prior, batch, ran>>

NextDisk ==
    \/ StartRecordWeek
    \/ StartLedgerTui
    \/ StepRecordWeek(LogOps(asset))
    \/ StepLedgerTui(LogOps(asset))
    \/ SaveHoldings
    \/ AppendEntry
    \/ AppendFails
    \/ Decline

SpecDisk == InitDisk /\ [][NextDisk]_vars

----------------------------------------------------------------------------
(* Vocabulary of the properties *)

\* r is num/den (den # 0) rounded half-up to a multiple of prec: r is the
\* multiple of prec nearest to num/den, has its sign, and of two equally
\* near multiples it is the one farther from zero
IsHalfUp(r, num, den, prec) ==
    LET a == Abs(num)
        d == Abs(den)
        m == Abs(r)
    IN  /\ m % prec = 0
        /\ 2 * m * d - prec * d <= 2 * a
        /\ 2 * a < 2 * m * d + prec * d
        /\ (m # 0 => Sign(r) = Sign(num) * Sign(den))

\* an operation of the batch has been taken
Acted == last.action # "none"

Accepted == Acted /\ err = "none"

\* the fills apply_trades matches to the last trade
HereOfLast == fills_here(fills, last.action, last.ticker)

\* The last operation got as far as the ledger transition: apply_trades
\* reconciled the trade with its fills, record_week found its quantity
\* positive; ledger_tui hands every trade to the ledger.
ReachedLedger ==
    /\ Acted
    /\ tool = "apply_trades" =>
          /\ HereOfLast # <<>>
          /\ SumQty(HereOfLast) = last.qty
          /\ last.qty # 0
    /\ tool = "record_week" => last.qty > 0

HeldBefore == Acted /\ last.ticker \in DOMAIN pre

HeldAfter == Acted /\ last.ticker \in DOMAIN hidx

InFile(t) == \E i \in DOMAIN file : load_holdings(file)[i].ticker = t

----------------------------------------------------------------------------
(* C1 *)

\* C1: batch application is all-or-nothing: as long as the batch is being
\* applied, and for ever once an operation of it has failed, the holdings
\* file is the pre-batch snapshot; the effect of the operations that
\* succeeded before the failure is never written.
C1_AllOrNothing ==
    (err # "none" \/ pc \in {"loop", "died"}) => file = prior

\* a batch whose first operation changed the working ledger and whose second
\* operation failed with InsufficientPosition
C1_Witness ==
    /\ pc = "died" /\ n = 2 /\ err = "InsufficientPosition"
    /\ pre # index_holdings(load_holdings(prior))
    /\ file = prior

----------------------------------------------------------------------------
(* C2 *)

\* C2 (the claim as stated): no position of the working ledger or of the
\* written snapshot has a negative quantity.
C2_QuantityNeverNegative ==
    /\ \A t \in DOMAIN hidx : hidx[t].shares >= 0
    /\ \A i \in DOMAIN file : load_holdings(file)[i].shares >= 0

----------------------------------------------------------------------------
(* C3 *)

----------------------------------------------------------------------------
(* C4 *)

\* C4: a sell that leaves the position open leaves its average cost and its
\* currency exactly as they were before the sell.
C4_SellKeepsCost ==
    (Accepted /\ last.action = "sell" /\ HeldAfter) =>
        /\ HeldBefore
        /\ hidx[last.ticker].avg_cost = pre[last.ticker].avg_cost
        /\ hidx[last.ticker].currency = pre[last.ticker].currency

\* a partial sell: the quantity went down, the position is still open
C4_Witness ==
    /\ Accepted /\ last.action = "sell" /\ HeldBefore /\ HeldAfter
    /\ last.qty > 0
    /\ last.qty < pre[last.ticker].shares
    /\ hidx[last.ticker].shares < pre[last.ticker].shares
    /\ hidx[last.ticker].avg_cost # 0

----------------------------------------------------------------------------
(* C5 *)

\* C5 (the claim as stated): an accepted sell of q < q0 against held(q0)
\* leaves the instrument held with quantity q0 - q, strictly less than q0.
C5_PartialSellReduces ==
    (Accepted /\ last.action = "sell" /\ HeldBefore
       /\ last.qty < pre[last.ticker].shares) =>
        /\ HeldAfter
        /\ hidx[last.ticker].shares = pre[last.ticker].shares - last.qty
        /\ hidx[last.ticker].shares < pre[last.ticker].shares

----------------------------------------------------------------------------
(* C6 *)

\* C6: an accepted sell of exactly the held quantity removes the instrument
\* from the working ledger and from the snapshot then written; and a sell
\* that reaches the ledger when the instrument is absent (for one, right
\* after that removal) fails with NoSuchPosition.
C6_FullSellRemoves ==
    /\ (Accepted /\ last.action = "sell" /\ HeldBefore
          /\ last.qty = pre[last.ticker].shares) =>
            /\ ~HeldAfter
            /\ pc = "done" => ~InFile(last.ticker)
    /\ (ReachedLedger /\ last.action = "sell" /\ ~HeldBefore) =>
            /\ err = "NoSuchPosition"
            /\ pc = "died"

\* the instrument was in the pre-batch snapshot, the first operation of the
\* batch removed it, the second one, a sell of it, failed
C6_Witness ==
    /\ n = 2 /\ last.action = "sell" /\ err = "NoSuchPosition"
    /\ last.ticker \in DOMAIN index_holdings(load_holdings(prior))
    /\ ~HeldBefore

----------------------------------------------------------------------------
(* C7 *)

\* C7 (the claim as stated): the pre-batch snapshots have no zero-quantity
\* row, and no position of the working ledger or of the written snapshot
\* has quantity zero.
C7_NoZeroRow ==
    /\ \A t \in DOMAIN hidx : hidx[t].shares # 0
    /\ \A i \in DOMAIN file : load_holdings(file)[i].shares # 0

----------------------------------------------------------------------------
(* C8 *)

\* C8: a sell that reaches the ledger with a quantity greater than the held
\* quantity fails with InsufficientPosition; the working ledger is not
\* modified and no snapshot is written.
C8_OversellRejected ==
    (ReachedLedger /\ last.action = "sell" /\ HeldBefore
       /\ last.qty > pre[last.ticker].shares) =>
        /\ err = "InsufficientPosition"
        /\ pc = "died"
        /\ hidx = pre
        /\ file = prior

\* a sell of one quantum more than is held
C8_Witness ==
    /\ ReachedLedger /\ last.action = "sell" /\ HeldBefore
    /\ last.qty = pre[last.ticker].shares + QTY_PREC
    /\ err = "InsufficientPosition"

----------------------------------------------------------------------------
(* C9 *)

\* C9: a sell that reaches the ledger when the instrument has no row (never
\* held, or removed earlier in the batch) fails with NoSuchPosition and
\* creates no position: the working ledger is as it was and nothing is
\* written.
C9_SellAbsentRejected ==
    (ReachedLedger /\ last.action = "sell" /\ ~HeldBefore) =>
        /\ err = "NoSuchPosition"
        /\ ~HeldAfter
        /\ hidx = pre
        /\ file = prior

\* a sell of an instrument that the pre-batch snapshot does not hold
C9_Witness ==
    /\ ReachedLedger /\ last.action = "sell" /\ ~HeldBefore
    /\ last.ticker \notin DOMAIN index_holdings(load_holdings(prior))
    /\ err = "NoSuchPosition"

----------------------------------------------------------------------------
(* C10 *)

\* C10: in apply_trades a trade whose fills sum to a quantity different from
\* the trade's quantity, by however little, fails with QuantityMismatch; the
\* working ledger is not modified and no snapshot is written.
C10_QuantityMismatch ==
    (Acted /\ tool = "apply_trades" /\ HereOfLast # <<>>
       /\ SumQty(HereOfLast) # last.qty) =>
        /\ err = "QuantityMismatch"
        /\ pc = "died"
        /\ hidx = pre
        /\ file = prior

\* the fills fall short of the trade by half a quantum
C10_Witness ==
    /\ Acted /\ tool = "apply_trades" /\ HereOfLast # <<>>
    /\ last.qty - SumQty(HereOfLast) = 5
    /\ err = "QuantityMismatch"

----------------------------------------------------------------------------
(* C11 *)

\* C11: in apply_trades a trade that has no fill with its (action,
\* instrument) fails with NoFillsForTrade and ends the run: the working
\* ledger is not modified by it and no snapshot is written, so the trades
\* applied before it in the batch are never written either.
C11_NoFillsAborts ==
    (Acted /\ tool = "apply_trades"
       /\ ~\E i \in DOMAIN fills : /\ fills[i].action = last.action
                                   /\ fills[i].ticker = last.ticker) =>
        /\ err = "NoFillsForTrade"
        /\ pc = "died"
        /\ hidx = pre
        /\ file = prior

\* the first trade of the batch changed the working ledger, the second one
\* has no fill; the file is still the pre-batch snapshot
C11_Witness ==
    /\ tool = "apply_trades" /\ n = 2 /\ err = "NoFillsForTrade"
    /\ fills # <<>>
    /\ pre # index_holdings(load_holdings(prior))
    /\ file = prior

----------------------------------------------------------------------------
(* C12 *)

\* the currency the last operation was reported in differs from the
\* currency of the row it met: the currency of the operation (record_week,
\* ledger_tui), of any one of the fills matched to the trade (apply_trades)
OtherCurrency ==
    IF tool = "apply_trades"
    THEN \E i \in DOMAIN fills :
            /\ fills[i].action = last.action
            /\ fills[i].ticker = last.ticker
            /\ fills[i].currency # pre[last.ticker].currency
    ELSE last.currency # pre[last.ticker].currency

\* C12: a buy of an equity that is held, reported in a currency other than
\* the currency of its row, fails with CurrencyMismatch: the row keeps its
\* quantity, cost and currency, the working ledger is as it was and no
\* snapshot is written.
C12_CurrencyMismatch ==
    (ReachedLedger /\ asset = "equity" /\ last.action = "buy" /\ HeldBefore
       /\ OtherCurrency) =>
        /\ err = "CurrencyMismatch"
        /\ pc = "died"
        /\ hidx = pre
        /\ file = prior

\* apply_trades: the first fill of the trade is in the currency of the row,
\* a later one is not
C12_Witness ==
    /\ ReachedLedger /\ asset = "equity" /\ last.action = "buy" /\ HeldBefore
    /\ tool = "apply_trades"
    /\ last.currency = pre[last.ticker].currency
    /\ OtherCurrency
    /\ err = "CurrencyMismatch"

----------------------------------------------------------------------------
(* C13 *)

\* the currencies the units bought by the last operation were reported in
AcquiredCurrencies ==
    IF tool = "apply_trades"
    THEN {fills[i].currency : i \in {j \in DOMAIN fills :
                                        /\ fills[j].action = last.action
                                        /\ fills[j].ticker = last.ticker}}
    ELSE {last.currency}

\* C13 (the claim as stated): an equity that stays held keeps the currency
\* of its row from one operation to the next, and every unit an accepted
\* buy adds to a position, the buy that creates it included, was reported in
\* the currency of that position.
C13_CurrencyFixed ==
    asset = "equity" =>
        /\ \A t \in DOMAIN pre \cap DOMAIN hidx :
              hidx[t].currency = pre[t].currency
        /\ (Accepted /\ last.action = "buy" /\ HeldAfter) =>
              AcquiredCurrencies = {hidx[last.ticker].currency}

----------------------------------------------------------------------------
(* C14 *)

\* C14 (the claim as stated): in apply_trades an equity trade that
\* reconciles with fills reported in more than one currency fails with
\* CurrencyMismatch, whether the instrument is held or not.
C14_InconsistentFillsRejected ==
    (ReachedLedger /\ tool = "apply_trades" /\ asset = "equity"
       /\ \E c1, c2 \in AcquiredCurrencies : c1 # c2) =>
        /\ err = "CurrencyMismatch"
        /\ hidx = pre

----------------------------------------------------------------------------
(* C15 *)

\* C15 (the claim as stated): a sell of a held equity that reaches the
\* ledger with a fill reported in a currency other than the currency of the
\* row fails with CurrencyMismatch and the quantity of the row is not
\* reduced.
C15_SellCurrencyMismatch ==
    (ReachedLedger /\ asset = "equity" /\ last.action = "sell" /\ HeldBefore
       /\ OtherCurrency) =>
        /\ err = "CurrencyMismatch"
        /\ HeldAfter
        /\ hidx[last.ticker].shares = pre[last.ticker].shares

----------------------------------------------------------------------------
(* C16 *)

\* C16: an accepted buy of q at price p (the fraction pnum/pden) in currency
\* cur of an instrument that has no row creates the row of that instrument
\* with quantity q rounded half-up to the quantity quantum, average cost p
\* rounded half-up to the price quantum and currency cur, and leaves the
\* other rows as they were.
C16_BuyCreates ==
    (Accepted /\ last.action = "buy" /\ ~HeldBefore) =>
        /\ DOMAIN hidx = DOMAIN pre \cup {last.ticker}
        /\ \A t \in DOMAIN pre : hidx[t] = pre[t]
        /\ LET r == hidx[last.ticker]
           IN  /\ r.ticker = last.ticker
               /\ IsHalfUp(r.shares, last.qty, 1, QTY_PREC)
               /\ IsHalfUp(r.avg_cost, last.pnum, last.pden, PX_PREC)
               /\ r.currency = last.currency

\* apply_trades opens a position from two fills, 5 @ 20 and 5 @ 30: the
\* price 25 lies half-way between two price quanta and is stored as 30
C16_Witness ==
    /\ Accepted /\ last.action = "buy" /\ ~HeldBefore /\ HeldAfter
    /\ tool = "apply_trades"
    /\ last.qty = 10 /\ last.pnum = 250 /\ last.pden = 10
    /\ hidx[last.ticker].shares = 10
    /\ hidx[last.ticker].avg_cost = 30
    /\ hidx[last.ticker].currency \in Currencies

----------------------------------------------------------------------------
(* C17 *)

\* the rows of the fills CSV that carry the action and the instrument of the
\* last trade
MatchingRows ==
    {i \in DOMAIN fills : /\ fills[i].action = last.action
                          /\ fills[i].ticker = last.ticker}

RECURSIVE QtyOver(_)
\* the quantities of the rows S of the fills CSV, added up
QtyOver(S) ==
    IF S = {} THEN 0
    ELSE LET i == CHOOSE x \in S : TRUE
         IN  fills[i].qty + QtyOver(S \ {i})

RECURSIVE CostOver(_)
\* quantity times unit price of the rows S of the fills CSV, added up
CostOver(S) ==
    IF S = {} THEN 0
    ELSE LET i == CHOOSE x \in S : TRUE
         IN  fills[i].qty * fills[i].fill_price + CostOver(S \ {i})

----------------------------------------------------------------------------
(* C18 *)

\* C18 (the claim as stated): an operation whose quantity is zero or
\* negative fails with NonPositiveQuantity in whichever script applies it;
\* the working ledger is not modified and no snapshot is written.
C18_NonPositiveRejected ==
    (Acted /\ last.qty <= 0) =>
        /\ err = "NonPositiveQuantity"
        /\ pc = "died"
        /\ hidx = pre
        /\ file = prior

----------------------------------------------------------------------------
(* C19 *)

\* The last operation got to a weighted average whose divisor is zero: in
\* apply_trades the fills matched to the trade add up to the trade's
\* quantity and that quantity is zero; or, in any script, a buy into a held
\* position that passed the checks before the blend brings the quantity of
\* the position to zero.
DividesByZero ==
    \/ /\ Acted /\ tool = "apply_trades"
       /\ MatchingRows # {}
       /\ QtyOver(MatchingRows) = last.qty
       /\ last.qty = 0
    \/ /\ ReachedLedger /\ last.action = "buy" /\ HeldBefore
       /\ ~(asset = "equity" /\ OtherCurrency)
       /\ pre[last.ticker].shares + last.qty = 0

\* C19: an operation whose weighted average would divide by zero fails with
\* an arithmetic error and ends the run: the working ledger is as it was
\* before the operation (no row with a made-up average cost), and no
\* snapshot is written.  No other operation fails in that way.
C19_DivisionByZeroFails ==
    /\ DividesByZero =>
          /\ err = "DivisionByZero"
          /\ pc = "died"
          /\ hidx = pre
          /\ file = prior
    /\ err = "DivisionByZero" => DividesByZero

\* apply_trades: a trade of quantity zero reconciles with two fills, -10 and
\* 10, whose cost does not cancel; the run dies on the division and the
\* holdings file is the pre-batch snapshot
C19_Witness ==
    /\ tool = "apply_trades" /\ err = "DivisionByZero" /\ pc = "died"
    /\ last.qty = 0 /\ last.pnum # 0
    /\ Cardinality(MatchingRows) = 2
    /\ hidx = pre
    /\ file = prior

----------------------------------------------------------------------------
(* C20 *)

\* no operation with an action other than buy and sell is applied
OnlyBuySellApplied == Acted => last.action \in Actions

\* C20 (the claim as stated): a record whose action is neither buy nor sell
\* never gets past the loading of the inputs: no operation with such an
\* action is applied, and the fills handed to apply_equity / apply_crypto
\* (the variable fills, from the call on) hold no such record.
C20_InvalidActionRejected ==
    /\ OnlyBuySellApplied
    /\ \A i \in DOMAIN fills : fills[i].action \in Actions

----------------------------------------------------------------------------
(* C21 *)

\* C21: round trip: for every working ledger a run reaches, the records
\* write_holdings makes of it decode (load_holdings, then the dict by
\* identifier) to that same ledger: same instruments, quantities, average
\* costs and currencies; and the file a run has written decodes to the ledger
\* the run ended with.
C21_RoundTrip ==
    /\ index_holdings(load_holdings(write_holdings(hidx))) = hidx
    /\ pc = "done" => index_holdings(load_holdings(file)) = hidx

\* a run on a file that spells AAA in two ways has applied two operations
\* and written a snapshot of two positions, one of them with a negative
\* quantity
C21_Witness ==
    /\ pc = "done" /\ n = 2 /\ file # prior
    /\ Len(prior) = 3
    /\ Cardinality(DOMAIN hidx) = 2
    /\ \E t \in DOMAIN hidx : hidx[t].shares < 0
    /\ index_holdings(load_holdings(file)) = hidx

----------------------------------------------------------------------------
(* C22 *)

\* C22: every snapshot written lists its positions in strictly ascending
\* order of identifier, each identifier once and in its normal spelling,
\* whatever the order of the rows of the prior snapshot, even when that one
\* has two rows for one instrument.
C22_SortedUnique ==
    pc = "done" =>
        /\ \A i \in DOMAIN file : file[i].ticker \in Tickers
        /\ \A i, j \in DOMAIN file :
              i < j => TickerRank(file[i].ticker) < TickerRank(file[j].ticker)

\* the prior snapshot had BBB before AAA and two rows for AAA; the snapshot
\* written has the two positions, AAA first
C22_Witness ==
    /\ pc = "done" /\ n >= 1
    /\ Len(prior) = 3 /\ prior[1].ticker = "BBB"
    /\ Len(file) = 2 /\ file[1].ticker = "AAA" /\ file[2].ticker = "BBB"

----------------------------------------------------------------------------
(* C23 *)

\* the columns required of the document a loader refused
RequiredOfRefused ==
    IF schema.doc = "holdings" THEN holdings_req(asset) ELSE fills_req(asset)

\* C23 (the claim as stated): whenever a loader refuses a holdings or fills
\* document for its header, a document without any header row included, the
\* run ends with a SchemaViolation that names exactly the required columns
\* the header lacks, and nothing is written.
C23_SchemaNamesMissing ==
    schema.doc # "none" =>
        /\ err = "SchemaViolation"
        /\ schema.reported = RequiredOfRefused \ schema.fieldnames.cols
        /\ schema.reported # {}
        /\ pc = "died"
        /\ file = prior

----------------------------------------------------------------------------
(* C24 *)

\* C24 (the claim as stated): from the moment a writer touches the holdings
\* file, at every point of the write and after it, the snapshot the run
\* started from exists on disk as the file set aside; for each of the three
\* writers.
C24_PreviousSnapshotKept ==
    pc \in {"writing", "done"} => backup = prior

----------------------------------------------------------------------------
(* C25 *)

\* C25: the history log is append-only.  Whenever a run changes the entries
\* file, the entries read from the new file are the entries read from the
\* old one, unchanged and in the same order, followed by exactly one new
\* entry; and every run of record_week / ledger_tui that completes does
\* change it.
C25_LogAppendOnly ==
    [][/\ log' # log =>
            /\ Len(json_loads(log')) = Len(json_loads(log)) + 1
            /\ SubSeq(json_loads(log'), 1, Len(log)) = json_loads(log)
            /\ json_loads(log')[Len(log')] = [trades |-> n]
       /\ (pc = "loop" /\ pc' = "done" /\ tool # "apply_trades") => log' # log
      ]_vars

\* two runs have appended, the second to a log that held the entry of a
\* batch of another size
C25_Witness ==
    /\ pc = "done"
    /\ Len(log) = 2
    /\ json_loads(log)[1].trades = 2
    /\ json_loads(log)[2].trades = 1

----------------------------------------------------------------------------
(* Batches re-ordered *)

\* One iteration of the loop of the script tl on the working dict h, for the
\* record x = [action, ticker, qty, fill_price, currency] (apply_trades reads
\* action, ticker and qty of it and takes price and currency from the fills).
apply_one(tl, a, h, x, fs) ==
    IF tl = "apply_trades"
    THEN IF a = "equity" THEN at_apply_equity(h, x, fs)
                         ELSE at_apply_crypto(h, x, fs)
    ELSE IF tl = "record_week"
    THEN IF a = "equity" THEN rw_apply_equity(h, x) ELSE rw_apply_crypto(h, x)
    ELSE IF a = "equity" THEN tui_apply_equity(h, x) ELSE tui_apply_crypto(h, x)

\* the records the loop of the running script can be given, as they are after
\* loading: valid actions, identifiers stripped and upper-cased
Loaded(tl, a) ==
    LET raw == IF tl = "apply_trades"
               THEN {Fill(t.action, t.ticker, t.qty, 0, NoCurrency) :
                        t \in RawTrades}
               ELSE RawOps(a)
    IN  {[r EXCEPT !.ticker = strip_upper(@)] :
            r \in {x \in raw : valid_action(x.action)}}

\* the record the last iteration was given
LastRecord ==
    Fill(last.action, last.ticker, last.qty,
         IF tool = "apply_trades" THEN 0 ELSE last.pnum,
         IF tool = "apply_trades" THEN NoCurrency ELSE last.currency)

\* the ledger the run started from
StartLedger == index_holdings(load_holdings(prior))

----------------------------------------------------------------------------
(* C26 *)

\* C26: the order of operations on different instruments does not matter.
\* Wherever in a batch an operation x (just applied) is followed by an
\* operation y on another instrument and both are accepted, the batch with
\* the two exchanged is accepted as well and leaves the same ledger.  (Every
\* permutation that keeps the order within each instrument is a sequence of
\* such exchanges of neighbours.)
C26_OrderAcrossInstruments ==
    Accepted =>
        \A y \in Loaded(tool, asset) :
            LET xy == apply_one(tool, asset, hidx, y, fills)
                y1 == apply_one(tool, asset, pre, y, fills)
                yx == apply_one(tool, asset, y1.hidx, LastRecord, fills)
            IN  (y.ticker # last.ticker /\ xy.err = "none") =>
                    /\ y1.err = "none"
                    /\ yx.err = "none"
                    /\ yx.hidx = xy.hidx

\* a batch of two: a buy that opened a position in one instrument, then a sell
\* that closed the position in another; the other order leaves the same ledger
C26_Witness ==
    /\ Accepted /\ n = 2
    /\ last.action = "sell" /\ HeldBefore /\ ~HeldAfter
    /\ \E x \in Loaded(tool, asset) :
         /\ x.action = "buy" /\ x.ticker # last.ticker
         /\ x.ticker \notin DOMAIN StartLedger
         /\ apply_one(tool, asset, StartLedger, x, fills) = Ok(pre)
         /\ LET y1 == apply_one(tool, asset, StartLedger, LastRecord, fills)
            IN  /\ y1.err = "none"
                /\ apply_one(tool, asset, y1.hidx, x, fills) = Ok(hidx)

----------------------------------------------------------------------------
(* C27 *)

\* C27 (the claim as stated): the order of the buys of one instrument does
\* not matter.  Wherever a buy x (just applied) is followed by a buy y of the
\* same instrument and both are accepted, the two buys in the other order
\* leave the same quantity and the same average cost.
C27_BuyOrderIrrelevant ==
    (Accepted /\ last.action = "buy") =>
        \A y \in Loaded(tool, asset) :
            LET xy == apply_one(tool, asset, hidx, y, fills)
                y1 == apply_one(tool, asset, pre, y, fills)
                yx == apply_one(tool, asset, y1.hidx, LastRecord, fills)
            IN  (y.action = "buy" /\ y.ticker = last.ticker
                 /\ xy.err = "none" /\ y1.err = "none" /\ yx.err = "none") =>
                    /\ yx.hidx[y.ticker].shares = xy.hidx[y.ticker].shares
                    /\ yx.hidx[y.ticker].avg_cost = xy.hidx[y.ticker].avg_cost

----------------------------------------------------------------------------
(* C28 *)

\* C28: operations on one instrument are applied in the order supplied.  A
\* sell is checked against the position the operations before it in the
\* batch have left (the starting ledger for the first operation, the outcome
\* of the first operation for the second): it is accepted exactly when that
\* position is held and covers the quantity; otherwise the batch ends there
\* with NoSuchPosition / InsufficientPosition and the ledger untouched, even
\* when a buy that would have funded the sell could follow.
C28_SellCheckedInOrder ==
    (ReachedLedger /\ last.action = "sell") =>
        LET covered == HeldBefore /\ last.qty <= pre[last.ticker].shares
        IN  /\ n = 1 => pre = StartLedger
            /\ n = 2 => \E x \in Loaded(tool, asset) :
                            apply_one(tool, asset, StartLedger, x, fills) = Ok(pre)
            /\ Accepted <=> covered
            /\ ~covered =>
                  /\ err = IF HeldBefore THEN "InsufficientPosition"
                                         ELSE "NoSuchPosition"
                  /\ pc = "died"
                  /\ hidx = pre
                  /\ file = prior

\* the second operation of a batch sells a quantity the starting position
\* would have covered, after a first sell has reduced the position below it:
\* rejected, while a buy placed before it would have funded it
C28_Witness ==
    /\ n = 2 /\ last.action = "sell" /\ err = "InsufficientPosition"
    /\ last.ticker \in DOMAIN StartLedger
    /\ last.qty <= StartLedger[last.ticker].shares
    /\ last.qty > pre[last.ticker].shares
    /\ \E y \in Loaded(tool, asset) :
         /\ y.action = "buy" /\ y.ticker = last.ticker
         /\ LET y1 == apply_one(tool, asset, pre, y, fills)
            IN  /\ y1.err = "none"
                /\ apply_one(tool, asset, y1.hidx, LastRecord, fills).err = "none"

----------------------------------------------------------------------------
(* C29 *)

\* C29 (the claim as stated): a batch buys q1 at p1 and then q2 at p2 of an
\* instrument the ledger did not hold (q1, q2 positive, p1, p2 not negative).
\* The row then holds q1 + q2 to within one quantum of the quantity scale and
\* the average cost (q1*p1 + q2*p2) / (q1 + q2) to within one quantum of the
\* price scale.
C29_WeightedAverageOfTwoBuys ==
    (n = 2 /\ Accepted /\ last.action = "buy"
     /\ last.ticker \notin DOMAIN StartLedger) =>
        \A x \in WideOps(asset) :
            (/\ x.ticker = last.ticker
             /\ apply_one(tool, asset, StartLedger, x, fills) = Ok(pre)) =>
                LET q1 == x.qty
                    p1 == x.fill_price
                    q2 == last.qty
                    p2 == last.pnum
                    row == hidx[last.ticker]
                IN  /\ Abs(row.shares - (q1 + q2)) <= QTY_PREC
                    /\ Abs(row.avg_cost * (q1 + q2) - (q1 * p1 + q2 * p2))
                          <= PX_PREC * (q1 + q2)

----------------------------------------------------------------------------
(* C30 *)

----------------------------------------------------------------------------
(* C31 *)

----------------------------------------------------------------------------
(* C32 *)

\* the operations of the batch taken so far for one (action, instrument)
OpsOfPair(b, act, t) ==
    SelectSeq(b, LAMBDA o : o.action = act /\ o.ticker = t)

\* C32 (the claim as stated): in apply_trades every fill is consumed by at
\* most one trade.  When a batch has been applied, then for every (action,
\* instrument) the batch names, the quantity the trades of that pair have
\* put through the ledger is the quantity of the fills of that pair.
C32_FillsConsumedOnce ==
    (tool = "apply_trades" /\ pc = "done" /\ batch # Untraced) =>
        \A act \in Actions, t \in Tickers :
            OpsOfPair(batch, act, t) # <<>> =>
                SumQty(OpsOfPair(batch, act, t))
                    = SumQty(fills_here(fills, act, t))

----------------------------------------------------------------------------
(* C33 *)

RECURSIVE run_batch(_, _, _, _, _)
\* the loop of apply_equity / apply_crypto of script tl over the batch b,
\* from the working dict h: it stops at the first operation that fails
run_batch(tl, a, h, b, fs) ==
    IF b = <<>> THEN Ok(h)
    ELSE LET r == apply_one(tl, a, h, RecordOf(Head(b)), fs)
         IN  IF r.err # "none" THEN r
             ELSE run_batch(tl, a, r.hidx, Tail(b), fs)

\* the fills CSV without its i-th row
WithoutFill(fs, i) == SubSeq(fs, 1, i - 1) \o SubSeq(fs, i + 1, Len(fs))

\* the i-th fill belongs to no trade of the batch
Unmatched(i) == OpsOfPair(batch, fills[i].action, fills[i].ticker) = <<>>

\* C33: in apply_trades a fill whose (action, instrument) is that of no
\* trade of the batch is ignored.  The run ends as the same batch ends on the
\* fills CSV without that row: with the same ledger, and with an error only
\* if that run has the same error.
C33_UnmatchedFillIgnored ==
    (tool = "apply_trades" /\ batch # Untraced /\ pc \in {"done", "died"}) =>
        \A i \in DOMAIN fills :
            Unmatched(i) =>
                run_batch(tool, asset, StartLedger, batch, WithoutFill(fills, i))
                    = [err |-> err, hidx |-> hidx]

\* a batch that bought BBB has been applied although the fills CSV also held
\* a sell of AAA that no trade asked for
C33_Witness ==
    /\ tool = "apply_trades" /\ batch # Untraced /\ pc = "done"
    /\ Len(batch) = 1 /\ batch[1].action = "buy" /\ batch[1].ticker = "BBB"
    /\ Len(fills) = 2
    /\ \E i \in DOMAIN fills :
         fills[i].action = "sell" /\ fills[i].ticker = "AAA" /\ Unmatched(i)
    /\ "BBB" \in DOMAIN hidx /\ "BBB" \notin DOMAIN StartLedger
    /\ file = write_holdings(hidx)

----------------------------------------------------------------------------
(* C34 *)

\* the instruments the operations of the batch name
Named(b) == {b[i].ticker : i \in DOMAIN b}

\* the instruments the batch buys
Bought(b) == {b[i].ticker : i \in {j \in DOMAIN b : b[j].action = "buy"}}

\* C34: a batch that has been applied changes only the instruments it names.
\* Every position of the prior snapshot whose instrument no operation of the
\* batch names is in the file written, with the quantity, the average cost
\* and the currency it had; and every instrument in the file written was in
\* the prior snapshot or was bought by the batch.
C34_OnlyNamedInstrumentsChange ==
    (pc = "done" /\ batch # Untraced) =>
        LET out == index_holdings(load_holdings(file))
        IN  /\ \A t \in DOMAIN StartLedger \ Named(batch) :
                  /\ t \in DOMAIN out
                  /\ out[t] = StartLedger[t]
                  /\ \E i \in DOMAIN file, j \in DOMAIN prior :
                        file[i].ticker = t /\ file[i] = prior[j]
            /\ \A i \in DOMAIN file :
                  file[i].ticker \in DOMAIN StartLedger \cup Bought(batch)

\* a batch sold the whole of AAA and nothing else: BBB, which it does not
\* name, is the only row of the file written, as it was
C34_Witness ==
    /\ pc = "done" /\ batch # Untraced
    /\ Len(batch) = 1 /\ batch[1].action = "sell" /\ batch[1].ticker = "AAA"
    /\ DOMAIN StartLedger = {"AAA", "BBB"}
    /\ Len(file) = 1 /\ file[1].ticker = "BBB" /\ file[1] = prior[2]

----------------------------------------------------------------------------
(* C35 *)

\* the fills of the last trade as record_week takes them: one operation each
PerFill == [i \in DOMAIN HereOfLast |-> OpOf(HereOfLast[i])]

\* C35 (the claim as stated): aggregated and per-fill application agree.
\* When apply_trades has applied a trade that several partial fills satisfy,
\* record_week applying those fills one by one, in their order, to the same
\* ledger accepts them all and leaves the same position for the instrument:
\* none, or the same quantity and the same average cost.
C35_AggregatedEqualsPerFill ==
    (tool = "apply_trades" /\ Accepted /\ Len(HereOfLast) >= 2) =>
        LET r == run_batch("record_week", asset, pre, PerFill, <<>>)
            t == last.ticker
        IN  /\ r.err = "none"
            /\ (t \in DOMAIN r.hidx) = (t \in DOMAIN hidx)
            /\ t \in DOMAIN hidx =>
                  /\ r.hidx[t].shares = hidx[t].shares
                  /\ r.hidx[t].avg_cost = hidx[t].avg_cost

----------------------------------------------------------------------------
(* C36 *)

\* an equity ledger read as a crypto ledger: the rows without their currency
WithoutCurrency(h) == [t \in DOMAIN h |-> [h[t] EXCEPT !.currency = NoCurrency]]

\* an equity record (operation or fill) read as a crypto record
AsCrypto(x) == [x EXCEPT !.currency = NoCurrency]

\* C36: the crypto and the equity loop of a script are the same machine but
\* for the currency.  Whenever the equity loop has taken an operation that
\* carries the currency of the position it meets, the crypto loop of the same
\* script, given the same ledger, operation and fills without the currencies,
\* ends the same way: the same error, or the same quantity and average cost
\* for every instrument.
C36_CryptoIsEquityWithoutCurrency ==
    (asset = "equity" /\ Acted /\ (HeldBefore => ~OtherCurrency)) =>
        apply_one(tool, "crypto", WithoutCurrency(pre), AsCrypto(LastRecord),
                  [i \in DOMAIN fills |-> AsCrypto(fills[i])])
            = [err |-> err, hidx |-> WithoutCurrency(hidx)]

\* an equity buy in the currency of the held position has been blended; the
\* crypto loop makes the same row of it, without a currency
C36_Witness ==
    /\ asset = "equity" /\ Accepted /\ last.action = "buy" /\ HeldBefore
    /\ ~OtherCurrency
    /\ hidx[last.ticker].currency \in Currencies
    /\ hidx[last.ticker].avg_cost # pre[last.ticker].avg_cost
    /\ LET r == apply_one(tool, "crypto", WithoutCurrency(pre),
                          AsCrypto(LastRecord),
                          [i \in DOMAIN fills |-> AsCrypto(fills[i])])
       IN  /\ r.err = "none"
           /\ r.hidx[last.ticker].currency = NoCurrency
           /\ r.hidx[last.ticker].shares = hidx[last.ticker].shares
           /\ r.hidx[last.ticker].avg_cost = hidx[last.ticker].avg_cost

----------------------------------------------------------------------------
(* The snapshot and the log; a run that writes nothing *)

\* the run of one of the two scripts that keep a log is over
LoggedRunOver ==
    tool \in {"record_week", "ledger_tui"} /\ pc \in {"done", "died", "declined"}

\* C37: in record_week and ledger_tui the snapshot and the log are committed
\* together: when a run is over, the holdings file holds a new snapshot if
\* and only if one entry was appended to the log; no run ends with a new
\* snapshot on disk and no entry for it.
C37_SnapshotAndLogTogether ==
    LoggedRunOver =>
        /\ file # prior => Len(log) = 1
        /\ Len(log) = 1 => file = write_holdings(hidx) /\ pc = "done"
        /\ Len(log) <= 1

\* the run of ledger_tui ended at the prompt or in apply_equity / apply_crypto
DeclinedOrFailed ==
    /\ tool = "ledger_tui"
    /\ \/ pc = "declined"
       \/ pc = "died" /\ err # "EntriesUnreadable"

\* C38: when the user of ledger_tui declines at "Proceed to write files?" or
\* applying the trades raises an error, nothing was written: the holdings
\* file and the entries file are as they were before the invocation, neither
\* created, nor modified, nor renamed to a backup.
C38_DeclineWritesNothing ==
    DeclinedOrFailed =>
        /\ disk = disk_prior
        /\ file = prior
        /\ log = <<>>
        /\ backup = <<>>

====
